---- MODULE Spec2Model ----
(***************************************************************************)
(* A model of the receiver app's connection layer: one SocketService      *)
(* (services/SocketService.ts) on top of the socket.io client transport,  *)
(* together with the callbacks the App registers on it (App.tsx).         *)
(*                                                                         *)
(* A step is one run-to-completion JavaScript task: a public method call  *)
(* with every handler it fires synchronously, or one transport event with *)
(* the handlers registered for it.                                         *)
(***************************************************************************)
EXTENDS Integers, Sequences, FiniteSets, TLC

(***************************************************************************)
(* Bounds of the model.                                                    *)
(***************************************************************************)
\* sockets one service creates (calls of connect()/changeConnection())
MaxSockets == 2
\* drops of an established link
MaxDrops == 1
\* data events the publisher sends
MaxEvents == 2
\* attempts in a row the model lets fail on one socket
MaxRetries == 1

(***************************************************************************)
(* Program constants.                                                      *)
(***************************************************************************)
\* io(..., { reconnectionAttempts: 5 })
ReconnectionAttempts == 5
\* publisherPort default of the constructor and of changeConnection
DefaultPort == 27182

SocketIds == 1..MaxSockets

\* addresses the service is constructed with
InitIPs == {"10.0.0.32"}
\* addresses changeConnection is called with
IPs == {"10.0.0.32", "192.168.1.7"}
\* errors the transport reports for a failed handshake
Errors == {"timeout", "xhr poll error"}

VARIABLES
    socket,        \* this.socket: 0 is null, else the id of the socket
    publisherUrl,  \* this.publisherUrl
    isConnected,   \* this.isConnected
    sockets,       \* the transport's sockets, by id
    app,           \* the App's state the callbacks write
    stepLog,       \* the invocations of onConnectionStatusChange the last
                   \* step made, in order
    nActive,       \* invocations with status 'Active' so far
    arrived,       \* data events received, in order
    calls,         \* invocations of the four data callbacks, in order
    escaped,       \* exceptions that left an event handler
    drops,         \* link drops so far
    discCalled,    \* disconnect() was called after the last connect()
    boot,          \* the App's start-up: discovery, its log entries, the
                   \* first connect
    slots,         \* the five callback slots of the service: who is registered
    screens        \* the state the Diagnostics and Health screens keep

vars == <<socket, publisherUrl, isConnected, sockets, app, stepLog,
          nActive, arrived, calls, escaped, drops, discCalled, boot, slots,
          screens>>

(***************************************************************************)
(* URLs.  `http://${ip}:${port}` is kept as its parts; new URL(...) throws *)
(* on an empty host.                                                       *)
(***************************************************************************)
MakeUrl(ip, port) == [scheme |-> "http", host |-> ip, port |-> port]

UrlParses(url) == url.host # ""

GetIPFromUrl(url) == IF UrlParses(url) THEN url.host ELSE "Unknown"

(***************************************************************************)
(* The App's callbacks (App.tsx, initializeSocketService).                 *)
(***************************************************************************)
InitialApp ==
    [vitalSigns |-> [heartrate |-> "N/A", resprate |-> "N/A", temp |-> "N/A"],
     chipImage |-> "undefined",
     rgbImageData |-> "undefined",
     thermalImageData |-> "undefined",
     fps |-> [kind |-> "num", sign |-> 0, num |-> 0, exp |-> 0],
     connectionStatus |-> "Inactive",
     connectedIP |-> "",
     patientName |-> "",
     isSearching |-> TRUE]

OnConnectionStatusChange(a, status, ip) ==
    LET b == [a EXCEPT !.connectionStatus = status, !.connectedIP = ip]
    IN  IF status = "Inactive"
        THEN [b EXCEPT !.patientName = "", !.isSearching = TRUE]
        ELSE b

\* the slots onVitalSignsUpdate, onRGBImageUpdate, onThermalImageUpdate,
\* onFPSUpdate and onConnectionStatusChange; a slot holds "none" (undefined)
\* or the name of the callback registered last
Slots == {"vitals", "rgb", "thermal", "fps", "status"}

\* the five setters as initializeSocketService calls them
AppSlots == [k \in Slots |-> "App"]

\* an invocation of the status callback; by names the callback invoked
Notify(status, ip) == [status |-> status, ip |-> ip, by |-> slots["status"]]

\* the counters of invocations stop counting here
CountCap == 2

Min(a, b) == IF a < b THEN a ELSE b

RECURSIVE CountActive(_)
CountActive(log) ==
    IF log = <<>> THEN 0
    ELSE (IF log[1].status = "Active" THEN 1 ELSE 0) + CountActive(Tail(log))

(***************************************************************************)
(* The transport's sockets.                                                *)
(*   phase     none | opening | connected | reconnecting | failed | closed *)
(*   attempts  reconnection attempts started since the link was last up    *)
(*   handlers  times setupEventHandlers registered its five handlers       *)
(*   url       the URL given to io()                                       *)
(*   promise   the promise connect() returned for this socket              *)
(*   searching patientInfo.isSearching as the vitals callback of the       *)
(*             socket's service captured it                                *)
(***************************************************************************)
Pending == [state |-> "pending", value |-> "none"]

NoSocket == [phase |-> "none", attempts |-> 0, handlers |-> 0,
             url |-> MakeUrl("", DefaultPort), promise |-> Pending, wasUp |-> FALSE,
             searching |-> TRUE]

Connected(s) == s # 0 /\ sockets[s].phase = "connected"

Live(s) == sockets[s].phase \in {"opening", "connected", "reconnecting"}

Settle(p, state, value) ==
    IF p.state = "pending" THEN [state |-> state, value |-> value] ELSE p

(***************************************************************************)
(* The three handlers connect() registers on the socket it creates.  Each  *)
(* is a function of the service state                                      *)
(*   [isConnected, log, app, sockets]                                      *)
(* since a handler fired inside a method runs in the middle of it; log is  *)
(* the status notifications of the step so far.                            *)
(***************************************************************************)
SvcState == [isConnected |-> isConnected, log |-> <<>>, app |-> app,
             sockets |-> sockets]

\* the state a step leaves
Commit(st) ==
    /\ isConnected' = st.isConnected
    /\ app' = st.app
    /\ sockets' = st.sockets
    /\ stepLog' = st.log
    /\ nActive' = Min(CountCap, nActive + CountActive(st.log))

\* this.onConnectionStatusChange?.(status, ip)
Report(st, status, ip) ==
    IF slots["status"] = "none" THEN st
    ELSE [st EXCEPT !.log = Append(@, Notify(status, ip)),
                    !.app = IF slots["status"] = "App"
                            THEN OnConnectionStatusChange(@, status, ip) ELSE @]

\* setupEventHandlers(): registers on this.socket, whichever socket that is
SetupEventHandlers(st, cur) ==
    IF cur = 0 THEN st
    ELSE [st EXCEPT !.sockets[cur].handlers = @ + 1]

\* socket.on('connect', ...) of socket s; cur is this.socket, url this.publisherUrl
OnConnect(st, s, cur, url) ==
    LET a == [st EXCEPT !.isConnected = TRUE]
        b == Report(a, "Active", GetIPFromUrl(url))
        c == SetupEventHandlers(b, cur)
    IN  [c EXCEPT !.sockets[s].promise = Settle(@, "resolved", "true")]

\* a 'disconnect' handler that forgets the notification
OnDisconnectSilent(st) == [st EXCEPT !.isConnected = FALSE]

\* socket.on('disconnect', ...)
OnDisconnect(st) ==
    Report([st EXCEPT !.isConnected = FALSE], "Inactive", "Disconnected")

\* a 'connect_error' handler that forgets to reject
OnConnectErrorNoReject(st, s, err) ==
    Report([st EXCEPT !.isConnected = FALSE], "Inactive", "Connection Error")

\* socket.on('connect_error', ...) of socket s
OnConnectError(st, s, err) ==
    LET a == Report([st EXCEPT !.isConnected = FALSE], "Inactive", "Connection Error")
    IN  [a EXCEPT !.sockets[s].promise = Settle(@, "rejected", err)]

\* a disconnect() after which the transport keeps reconnecting
SocketDisconnectKeepsRetrying(st, s) ==
    [st EXCEPT !.sockets[s].phase = "reconnecting", !.sockets[s].attempts = 1,
               !.isConnected = FALSE,
               !.log = Append(@, Notify("Inactive", "Disconnected")),
               !.app = OnConnectionStatusChange(@, "Inactive", "Disconnected")]

\* socket.disconnect() on a connected socket: the transport closes it, stops
\* reconnecting and fires 'disconnect' ("io client disconnect") at once
SocketDisconnect(st, s) ==
    OnDisconnect([st EXCEPT !.sockets[s].phase = "closed"])

(***************************************************************************)
(* The public methods.                                                     *)
(***************************************************************************)
\* if (this.socket?.connected) this.socket.disconnect()
CloseIfConnected(st, cur) ==
    IF cur # 0 /\ st.sockets[cur].phase = "connected"
    THEN SocketDisconnect(st, cur)
    ELSE st

\* this.socket = io(this.publisherUrl, {...}) and the promise around it
NewSocket(url) ==
    [phase |-> "opening", attempts |-> 0, handlers |-> 0, url |-> url,
     promise |-> Pending, wasUp |-> FALSE, searching |-> TRUE]

\* connect() with this.publisherUrl = url and this.socket = cur: the service
\* state it leaves, the socket it creates and the id that socket gets
ConnectResult(st, cur, url) ==
    [svc |-> CloseIfConnected(st, cur), socket |-> cur + 1,
     created |-> NewSocket(url), publisherUrl |-> url]

\* disconnect() with this.socket = cur
DisconnectResult(st, cur) ==
    [CloseIfConnected(st, cur) EXCEPT !.isConnected = FALSE]

ConnectTo(url) ==
    /\ socket < MaxSockets
    /\ LET r == ConnectResult(SvcState, socket, url)
       IN  /\ socket' = r.socket
           /\ Commit([r.svc EXCEPT !.sockets[r.socket] = r.created])
           /\ publisherUrl' = r.publisherUrl
    /\ discCalled' = FALSE
    /\ UNCHANGED <<arrived, calls, escaped, drops, slots, screens>>

Connect == ConnectTo(publisherUrl) /\ UNCHANGED boot

ChangeConnection(newIP) ==
    ConnectTo(MakeUrl(newIP, DefaultPort)) /\ UNCHANGED boot

Disconnect ==
    /\ Commit(DisconnectResult(SvcState, socket))
    /\ discCalled' = TRUE
    /\ UNCHANGED <<socket, publisherUrl, arrived, calls, escaped, drops, boot,
                   slots, screens>>

(***************************************************************************)
(* Transport events (socket.io client with reconnection: true).            *)
(***************************************************************************)
\* what a transport event leaves alone
Transport ==
    UNCHANGED <<socket, publisherUrl, arrived, calls, escaped, drops, discCalled,
                boot, slots, screens>>

\* the handshake, or a reconnection attempt, of socket s succeeds: 'connect'
HandshakeOk(s) ==
    /\ sockets[s].phase \in {"opening", "reconnecting"}
    /\ UrlParses(sockets[s].url)
    /\ LET up == [SvcState EXCEPT !.sockets[s].phase = "connected",
                                  !.sockets[s].attempts = 0,
                                  !.sockets[s].wasUp = TRUE]
       IN  Commit(OnConnect(up, s, socket, publisherUrl))
    /\ Transport

\* a manager that retries without a budget
AfterFailureNoBudget(sk) ==
    [sk EXCEPT !.phase = "reconnecting", !.attempts = @ + 1]

\* what the manager does after a failed attempt: try again while the budget
\* lasts, then give up
AfterFailure(sk) ==
    IF sk.phase = "reconnecting" /\ sk.attempts >= ReconnectionAttempts
    THEN [sk EXCEPT !.phase = "failed", !.attempts = 0]
    ELSE [sk EXCEPT !.phase = "reconnecting", !.attempts = @ + 1]

\* the handshake, or a reconnection attempt, fails or times out: 'connect_error'
AttemptFails(s, err) ==
    /\ sockets[s].phase \in {"opening", "reconnecting"}
    /\ LET down == [SvcState EXCEPT !.sockets[s] = AfterFailure(@)]
       IN  Commit(OnConnectError(down, s, err))
    /\ Transport

\* the same, for at most MaxRetries failures in a row
HandshakeFail(s, err) ==
    /\ sockets[s].attempts < MaxRetries
    /\ AttemptFails(s, err)

\* an established link drops: 'disconnect', then the manager starts reconnecting
LinkDrop(s) ==
    /\ sockets[s].phase = "connected"
    /\ drops < MaxDrops
    /\ drops' = drops + 1
    /\ LET down == [SvcState EXCEPT !.sockets[s].phase = "reconnecting",
                                    !.sockets[s].attempts = 1]
       IN  Commit(OnDisconnect(down))
    /\ UNCHANGED <<socket, publisherUrl, arrived, calls, escaped, discCalled, boot,
                   slots, screens>>

(***************************************************************************)
(* Payloads.  A binary or text payload is [type, bytes | text | num]; a    *)
(* vitals payload is the record the publisher sent, fields it left out     *)
(* being absent from the record.                                           *)
(***************************************************************************)
ArrayBuffer(bytes) == [type |-> "ArrayBuffer", bytes |-> bytes]
Uint8Array(bytes)  == [type |-> "Uint8Array", bytes |-> bytes]
Text(s)            == [type |-> "string", text |-> s]
Number(n)          == [type |-> "number", num |-> n]

TypeOf(d) == IF "type" \in DOMAIN d THEN d.type ELSE "object"

\* obj.key of a plain object: undefined when the key is absent
Field(obj, key) == IF key \in DOMAIN obj THEN obj[key] ELSE "undefined"

(***************************************************************************)
(* bytesToFloat: new DataView(buffer).getFloat32(0, true).  A float is     *)
(* kept as (-1)^sign * num * 2^exp with num odd or zero.                   *)
(***************************************************************************)
RECURSIVE Normal(_, _, _)
Normal(sign, num, exp) ==
    IF num = 0 THEN [kind |-> "num", sign |-> sign, num |-> 0, exp |-> 0]
    ELSE IF num % 2 = 0 THEN Normal(sign, num \div 2, exp + 1)
    ELSE [kind |-> "num", sign |-> sign, num |-> num, exp |-> exp]

\* a decoder that takes the first byte as the most significant
Float32BE(b) ==
    LET sign     == b[1] \div 128
        exponent == (b[1] % 128) * 2 + b[2] \div 128
        mantissa == (b[2] % 128) * 65536 + b[3] * 256 + b[4]
    IN  IF exponent = 255
        THEN [kind |-> IF mantissa = 0 THEN "inf" ELSE "nan",
              sign |-> sign, num |-> 0, exp |-> 0]
        ELSE IF exponent = 0
        THEN Normal(sign, mantissa, -149)
        ELSE Normal(sign, 8388608 + mantissa, exponent - 150)

\* the IEEE-754 single whose bytes, least significant first, are b[1..4]
Float32LE(b) ==
    LET sign     == b[4] \div 128
        exponent == (b[4] % 128) * 2 + b[3] \div 128
        mantissa == (b[3] % 128) * 65536 + b[2] * 256 + b[1]
    IN  IF exponent = 255
        THEN [kind |-> IF mantissa = 0 THEN "inf" ELSE "nan",
              sign |-> sign, num |-> 0, exp |-> 0]
        ELSE IF exponent = 0
        THEN Normal(sign, mantissa, -149)
        ELSE Normal(sign, 8388608 + mantissa, exponent - 150)

\* new DataView(buffer) throws on anything but an ArrayBuffer, getFloat32
\* on a buffer shorter than four bytes
BytesToFloatThrows(d) == TypeOf(d) # "ArrayBuffer" \/ Len(d.bytes) < 4

BytesToFloat(d) == Float32LE(d.bytes)

(***************************************************************************)
(* arrayBufferToBase64: one character per byte, then btoa.                 *)
(***************************************************************************)
B64Chars ==
    <<"A", "B", "C", "D", "E", "F", "G", "H", "I", "J", "K", "L", "M",
      "N", "O", "P", "Q", "R", "S", "T", "U", "V", "W", "X", "Y", "Z",
      "a", "b", "c", "d", "e", "f", "g", "h", "i", "j", "k", "l", "m",
      "n", "o", "p", "q", "r", "s", "t", "u", "v", "w", "x", "y", "z",
      "0", "1", "2", "3", "4", "5", "6", "7", "8", "9", "+", "/">>

B64Char(n) == B64Chars[n + 1]

\* an encoder that leaves out the padding
RECURSIVE BtoaCharsUnpadded(_)
BtoaCharsUnpadded(b) ==
    IF Len(b) = 0 THEN <<>>
    ELSE IF Len(b) = 1
    THEN <<B64Char(b[1] \div 4), B64Char((b[1] % 4) * 16)>>
    ELSE IF Len(b) = 2
    THEN <<B64Char(b[1] \div 4), B64Char((b[1] % 4) * 16 + b[2] \div 16),
           B64Char((b[2] % 16) * 4)>>
    ELSE <<B64Char(b[1] \div 4), B64Char((b[1] % 4) * 16 + b[2] \div 16),
           B64Char((b[2] % 16) * 4 + b[3] \div 64), B64Char(b[3] % 64)>>
         \o BtoaCharsUnpadded(SubSeq(b, 4, Len(b)))

\* the characters btoa gives for the char codes b
RECURSIVE BtoaChars(_)
BtoaChars(b) ==
    IF Len(b) = 0 THEN <<>>
    ELSE IF Len(b) = 1
    THEN <<B64Char(b[1] \div 4), B64Char((b[1] % 4) * 16), "=", "=">>
    ELSE IF Len(b) = 2
    THEN <<B64Char(b[1] \div 4), B64Char((b[1] % 4) * 16 + b[2] \div 16),
           B64Char((b[2] % 16) * 4), "=">>
    ELSE <<B64Char(b[1] \div 4), B64Char((b[1] % 4) * 16 + b[2] \div 16),
           B64Char((b[2] % 16) * 4 + b[3] \div 64), B64Char(b[3] % 64)>>
         \o BtoaChars(SubSeq(b, 4, Len(b)))

\* a sequence of characters as one string
RECURSIVE JoinChars(_)
JoinChars(cs) == IF cs = <<>> THEN "" ELSE cs[1] \o JoinChars(Tail(cs))

Btoa(b) == JoinChars(BtoaChars(b))

\* a conversion that keeps seven bits of each byte
BinaryStringAscii(bytes) == [i \in DOMAIN bytes |-> bytes[i] % 128]

\* binary += String.fromCharCode(uint8Array[i]): one UTF-16 code unit per byte
BinaryString(bytes) == [i \in DOMAIN bytes |-> bytes[i] % 65536]

ArrayBufferToBase64(bytes) == Btoa(BinaryString(bytes))

\* new Uint8Array(data): the bytes of a buffer or typed array; for anything
\* else a zero-filled array of length ToIndex(data), a RangeError when that
\* is negative
RECURSIVE Zeros(_)
Zeros(n) == IF n = 0 THEN <<>> ELSE <<0>> \o Zeros(n - 1)

NewUint8ArrayThrows(d) == TypeOf(d) = "number" /\ d.num < 0

NewUint8Array(d) ==
    IF TypeOf(d) \in {"ArrayBuffer", "Uint8Array"} THEN d.bytes
    ELSE IF TypeOf(d) = "number" THEN Zeros(d.num)
    ELSE <<>>

(***************************************************************************)
(* The handlers setupEventHandlers registers.  A handler run gives the     *)
(* callback invocations it made and whether an exception left it.          *)
(***************************************************************************)
NoVitals == [heartrate |-> "", resprate |-> "", temp |-> ""]
NoFloat == [kind |-> "none", sign |-> 0, num |-> 0, exp |-> 0]

VitalsCall(vitals, image) ==
    [slot |-> "vitals", vitals |-> vitals, image |-> image, fps |-> NoFloat,
     by |-> slots["vitals"]]
ImageCall(slot, image) ==
    [slot |-> slot, vitals |-> NoVitals, image |-> image, fps |-> NoFloat,
     by |-> slots[slot]]
FPSCall(fps) ==
    [slot |-> "fps", vitals |-> NoVitals, image |-> "", fps |-> fps,
     by |-> slots["fps"]]

\* this.onX?.(...): nothing is invoked when the slot is undefined
IsInvoked(c) == c.by # "none"

Ran(cs) == [calls |-> cs, threw |-> FALSE]
Caught == [calls |-> <<>>, threw |-> FALSE]
Thrown == [calls |-> <<>>, threw |-> TRUE]

\* handleChipUpdate: reading a field of an undefined chip_data throws inside
\* the try
HandleChipUpdate(data) ==
    IF "chip_data" \notin DOMAIN data THEN Caught
    ELSE LET chipData == data.chip_data
             vitals == [heartrate |-> Field(chipData, "heartrate"),
                        resprate |-> Field(chipData, "resprate"),
                        temp |-> Field(chipData, "temp")]
         IN  Ran(<<VitalsCall(vitals, Field(chipData, "chip_img"))>>)

\* an 'update_feed' handler without the branch for text
UpdateFeedHandlerBinaryOnly(data) ==
    IF TypeOf(data) \in {"ArrayBuffer", "Uint8Array"}
    THEN Ran(<<ImageCall("rgb", ArrayBufferToBase64(data.bytes))>>)
    ELSE Caught

\* socket.on('update_feed', ...)
UpdateFeedHandler(data) ==
    IF TypeOf(data) \in {"ArrayBuffer", "Uint8Array"}
    THEN Ran(<<ImageCall("rgb", ArrayBufferToBase64(data.bytes))>>)
    ELSE IF TypeOf(data) = "string"
    THEN Ran(<<ImageCall("rgb", data.text)>>)
    ELSE Caught

\* socket.on('thermal_image', ...)
ThermalImageHandler(data) ==
    IF NewUint8ArrayThrows(data) THEN Caught
    ELSE Ran(<<ImageCall("thermal", ArrayBufferToBase64(NewUint8Array(data)))>>)

\* socket.on('frame_rate', ...): no try around bytesToFloat
FrameRateHandler(data) ==
    IF BytesToFloatThrows(data) THEN Thrown
    ELSE Ran(<<FPSCall(BytesToFloat(data))>>)

Handler(name, data) ==
    CASE name \in {"add_chip", "update_chip"} -> HandleChipUpdate(data)
      [] name = "update_feed" -> UpdateFeedHandler(data)
      [] name = "thermal_image" -> ThermalImageHandler(data)
      [] name = "frame_rate" -> FrameRateHandler(data)

(***************************************************************************)
(* The App's data callbacks.                                               *)
(***************************************************************************)
\* setOnVitalSignsUpdate callback; searching is patientInfo.isSearching of
\* the render that created the callback
OnVitalSignsUpdate(a, vitals, image, searching) ==
    LET b == [a EXCEPT !.vitalSigns = vitals, !.chipImage = image]
    IN  IF vitals.heartrate # "N/A" /\ searching
        THEN [b EXCEPT !.patientName = "Patient Detected", !.isSearching = FALSE]
        ELSE b

OnRGBImageUpdate(a, imageData) == [a EXCEPT !.rgbImageData = imageData]

OnThermalImageUpdate(a, imageData) == [a EXCEPT !.thermalImageData = imageData]

OnFPSUpdate(a, fps) == [a EXCEPT !.fps = fps]

\* the callback of one invocation; only the App's callbacks write the App's
\* state
Callback(a, c, searching) ==
    CASE c.by # "App" -> a
      [] c.slot = "vitals" -> OnVitalSignsUpdate(a, c.vitals, c.image, searching)
      [] c.slot = "rgb" -> OnRGBImageUpdate(a, c.image)
      [] c.slot = "thermal" -> OnThermalImageUpdate(a, c.image)
      [] c.slot = "fps" -> OnFPSUpdate(a, c.fps)

RECURSIVE ApplyCalls(_, _, _)
ApplyCalls(a, cs, searching) ==
    IF cs = <<>> THEN a
    ELSE ApplyCalls(Callback(a, cs[1], searching), Tail(cs), searching)

\* the listeners of one event run in registration order; one that throws
\* ends the emit
RECURSIVE Emit(_, _)
Emit(k, one) ==
    IF k = 0 THEN Ran(<<>>)
    ELSE IF one.threw THEN Thrown
    ELSE LET rest == Emit(k - 1, one)
         IN  [calls |-> one.calls \o rest.calls, threw |-> rest.threw]

(***************************************************************************)
(* The events the publisher sends in this model.                           *)
(***************************************************************************)
GoodVitals == [chip_data |-> [temp |-> "98.6", heartrate |-> "72",
                              resprate |-> "16", chip_img |-> "aW1n"]]
NoHeartrate == [chip_data |-> [temp |-> "98.6", resprate |-> "16"]]
NoChipData == [chip |-> "x"]

Events ==
    {[name |-> "add_chip", data |-> GoodVitals],
     [name |-> "update_chip", data |-> NoHeartrate],
     [name |-> "update_chip", data |-> NoChipData],
     [name |-> "update_feed", data |-> ArrayBuffer(<<255, 216, 255>>)],
     [name |-> "update_feed", data |-> Text("/9j/")],
     [name |-> "update_feed", data |-> Number(7)],
     [name |-> "thermal_image", data |-> ArrayBuffer(<<137, 80>>)],
     [name |-> "thermal_image", data |-> Text("iVA=")],
     [name |-> "frame_rate", data |-> ArrayBuffer(<<0, 0, 128, 63>>)],
     [name |-> "frame_rate", data |-> ArrayBuffer(<<0, 0, 240, 65>>)],
     [name |-> "frame_rate", data |-> ArrayBuffer(<<0, 0>>)]}

\* the publisher's event e arrives on the connected socket s
Deliver(s, e) ==
    /\ sockets[s].phase = "connected"
    /\ Len(arrived) < MaxEvents
    /\ arrived' = Append(arrived, e)
    /\ LET out == Emit(sockets[s].handlers, Handler(e.name, e.data))
           made == SelectSeq(out.calls, IsInvoked)
       IN  /\ calls' = calls \o made
           /\ escaped' = escaped + (IF out.threw THEN 1 ELSE 0)
           /\ app' = ApplyCalls(app, made, sockets[s].searching)
    /\ stepLog' = <<>>
    /\ UNCHANGED <<socket, publisherUrl, isConnected, sockets, nActive,
                   drops, discCalled, boot, slots, screens>>


(***************************************************************************)
(* Discovery and the App's start-up (SocketService.discoverPublisher,      *)
(* testConnection; App.initializeWithDiscovery).                           *)
(***************************************************************************)
TestIPs == <<"10.0.0.32", "127.0.0.1", "localhost">>

DEFAULT_PUBLISHER_IP == "10.0.0.32"

\* setTimeout(() => controller.abort(), 2000)
ProbeTimeout == 2000

\* logs: [...prev.logs.slice(-49), newLog]
LogKeep == 49

Null == "null"

\* what the network does with one GET /ping: a response with a status after
\* some milliseconds, or a failure of the request
Statuses == {200, 204, 404}
Latencies == {ProbeTimeout - 1, ProbeTimeout + 1}
Outcomes ==
    [kind : {"response"}, status : Statuses, latency : Latencies]
        \cup {[kind |-> "network error", status |-> 0, latency |-> ProbeTimeout - 1]}

\* fetch(url, {signal}): resolves with the response when it arrives before the
\* abort, rejects on a network error or when the abort fires first
Fetch(o) ==
    IF o.kind = "response" /\ o.latency < ProbeTimeout
    THEN [rejected |-> FALSE, ok |-> o.status \in 200..299, status |-> o.status]
    ELSE [rejected |-> TRUE, ok |-> FALSE, status |-> 0]

\* a probe that accepts every 2xx response
TestConnectionAnyOk(o) ==
    LET response == Fetch(o)
    IN  IF response.rejected
        THEN [raised |-> FALSE, value |-> FALSE]
        ELSE [raised |-> FALSE, value |-> response.ok]

TestConnection(o) ==
    LET response == Fetch(o)
    IN  IF response.rejected
        THEN [raised |-> FALSE, value |-> FALSE]
        ELSE [raised |-> FALSE, value |-> response.ok /\ response.status = 200]

\* a loop that falls through to its last candidate
ExhaustedReturnsLast(b) ==
    [b EXCEPT !.pc = "done", !.result = TestIPs[Len(TestIPs)]]

\* the for loop ends without a return: return null
Exhausted(b) == [b EXCEPT !.pc = "done", !.result = Null]

\* a loop that remembers a success but goes on probing
AfterProbeKeepsGoing(b, o) ==
    LET ip == TestIPs[b.i]
        t  == TestConnection(o)
        c  == [b EXCEPT !.inflight = 0,
                        !.probes = Append(@, [ip |-> ip, outcome |-> o,
                                              raised |-> t.raised, value |-> t.value])]
        r  == IF t.value THEN [c EXCEPT !.result = ip] ELSE c
    IN  IF b.i = Len(TestIPs) THEN [r EXCEPT !.pc = "done"]
        ELSE [r EXCEPT !.i = @ + 1]

\* the awaited testConnection of candidate b.i settles with outcome o: the
\* rest of that iteration of the loop of discoverPublisher
AfterProbe(b, o) ==
    LET ip == TestIPs[b.i]
        t  == TestConnection(o)
        c  == [b EXCEPT !.inflight = 0,
                        !.probes = Append(@, [ip |-> ip, outcome |-> o,
                                              raised |-> t.raised, value |-> t.value])]
    IN  IF t.raised THEN [c EXCEPT !.pc = "done", !.result = Null]
        ELSE IF t.value THEN [c EXCEPT !.pc = "done", !.result = ip]
        ELSE IF b.i = Len(TestIPs) THEN Exhausted(c)
        ELSE [c EXCEPT !.i = @ + 1]

\* an addLog that never drops an entry
AddLogKeepsAll(logs, type, message) ==
    Append(logs, [type |-> type, message |-> message])

\* addLog; the timestamp is left out
AddLog(logs, type, message) ==
    LET n == Len(logs)
        kept == IF n > LogKeep THEN SubSeq(logs, n - LogKeep + 1, n) ELSE logs
    IN  Append(kept, [type |-> type, message |-> message])

\* a start-up that reports the fallback like a discovery
DiscoveryLogAlwaysInfo(logs, discoveredIP) ==
    AddLog(logs, "info", <<"Publisher auto-discovered at", discoveredIP>>)

\* the log entry initializeWithDiscovery adds once discovery has returned
DiscoveryLog(logs, discoveredIP) ==
    IF discoveredIP # Null
    THEN AddLog(logs, "info", <<"Publisher auto-discovered at", discoveredIP>>)
    ELSE AddLog(logs, "warning",
                <<"Auto-discovery failed, trying default IP:", DEFAULT_PUBLISHER_IP>>)

\* a start-up that ignores what discovery returned
ChosenIPIgnoresDiscovery(discoveredIP) == DEFAULT_PUBLISHER_IP

\* the address initializeWithDiscovery hands to initializeSocketService
ChosenIP(discoveredIP) ==
    IF discoveredIP # Null THEN discoveredIP ELSE DEFAULT_PUBLISHER_IP

InitialBoot ==
    [pc |-> "mounted", i |-> 1, inflight |-> 0, probes |-> <<>>,
     result |-> Null, logs |-> <<>>]

\* useEffect on mount: initializeWithDiscovery up to its await
InitializeWithDiscovery ==
    /\ boot.pc = "mounted"
    /\ boot' = [boot EXCEPT !.pc = "discovering",
                            !.logs = AddLog(@, "info",
                                            <<"Searching for publisher device...">>)]
    /\ UNCHANGED <<socket, publisherUrl, isConnected, sockets, app, stepLog,
                   nActive, arrived, calls, escaped, drops, discCalled, slots,
                   screens>>

\* discoverPublisher calls testConnection for candidate boot.i
StartProbe ==
    /\ boot.pc = "discovering"
    /\ boot.inflight = 0
    /\ boot' = [boot EXCEPT !.inflight = @ + 1]
    /\ UNCHANGED <<socket, publisherUrl, isConnected, sockets, app, stepLog,
                   nActive, arrived, calls, escaped, drops, discCalled, slots,
                   screens>>

\* the probe in flight settles
FinishProbe(o) ==
    /\ boot.pc = "discovering"
    /\ boot.inflight > 0
    /\ boot' = AfterProbe(boot, o)
    /\ UNCHANGED <<socket, publisherUrl, isConnected, sockets, app, stepLog,
                   nActive, arrived, calls, escaped, drops, discCalled, slots,
                   screens>>

\* initializeWithDiscovery after its await: the log entry, then
\* initializeSocketService(ip): new SocketService(ip), the callbacks, connect()
InitializeSocketService ==
    /\ boot.pc = "done"
    /\ socket = 0
    /\ boot' = [boot EXCEPT !.pc = "started",
                            !.logs = DiscoveryLog(@, boot.result)]
    /\ ConnectTo(MakeUrl(ChosenIP(boot.result), DefaultPort))

(***************************************************************************)
(* The state of the two screens: the manual override of the Diagnostics    *)
(* screen (its text, whether the input shows, what the last press did) and *)
(* the vitals histories of the Health screen.                              *)
(***************************************************************************)
\*   newIP, showIPInput   the useState values of DiagnosticsScreen
\*   typed                 changes of the text since it was last cleared
\*   called, alert         what the last step did: onConnectionChange(ip),
\*                         Alert.alert
\*   ...History            the useState values of HealthDiagnosticsScreen
\*   updates               runs of its effect so far
NotCalled == [made |-> FALSE, ip |-> <<>>]

InitialScreens ==
    [newIP |-> <<>>, showIPInput |-> FALSE, typed |-> 0,
     called |-> NotCalled, alert |-> FALSE,
     heartRateHistory |-> <<>>, respRateHistory |-> <<>>, tempHistory |-> <<>>,
     updates |-> 0]

Init ==
    /\ socket = 0
    /\ publisherUrl \in {MakeUrl(ip, DefaultPort) : ip \in InitIPs}
    /\ isConnected = FALSE
    /\ sockets = [s \in SocketIds |-> NoSocket]
    /\ app = InitialApp
    /\ stepLog = <<>>
    /\ nActive = 0
    /\ arrived = <<>>
    /\ calls = <<>>
    /\ escaped = 0
    /\ drops = 0
    /\ discCalled = FALSE
    /\ boot = InitialBoot
    /\ slots = AppSlots
    /\ screens = InitialScreens

Next ==
    \/ Connect
    \/ \E ip \in IPs : ChangeConnection(ip)
    \/ Disconnect
    \/ \E s \in SocketIds : HandshakeOk(s)
    \/ \E s \in SocketIds, err \in Errors : HandshakeFail(s, err)
    \/ \E s \in SocketIds : LinkDrop(s)

Spec == Init /\ [][Next]_vars

(***************************************************************************)
(* The service as the App uses it: one connect() per SocketService, and    *)
(* the publisher's events.                                                 *)
(***************************************************************************)
ConnectOnce == socket = 0 /\ Connect

NextEvents ==
    \/ ConnectOnce
    \/ Disconnect
    \/ HandshakeOk(1)
    \/ \E err \in Errors : HandshakeFail(1, err)
    \/ LinkDrop(1)
    \/ \E e \in Events : Deliver(1, e)

SpecEvents == Init /\ [][NextEvents]_vars

(***************************************************************************)
(* One connection and its whole retry budget: the transport may fail as    *)
(* often as the manager tries.                                             *)
(***************************************************************************)
NextRetry ==
    \/ ConnectOnce
    \/ Disconnect
    \/ HandshakeOk(1)
    \/ \E err \in Errors : AttemptFails(1, err)
    \/ LinkDrop(1)

SpecRetry == Init /\ [][NextRetry]_vars

(***************************************************************************)
(* The decoders on their own: one connection, one event, its payload drawn *)
(* from the byte sequences up to MaxLen.                                   *)
(***************************************************************************)
MaxLen == 4

SampleBytes == {0, 1, 127, 128, 255}

ByteSeqs == UNION {[1..n -> SampleBytes] : n \in 0..MaxLen}

FloatBytes == {0, 63, 65, 128, 240, 255}

CodecEvents ==
    {[name |-> "update_feed", data |-> ArrayBuffer(b)] : b \in ByteSeqs}
        \cup {[name |-> "update_feed", data |-> Uint8Array(b)] : b \in ByteSeqs}
        \cup {[name |-> "thermal_image", data |-> ArrayBuffer(b)] : b \in ByteSeqs}
        \cup {[name |-> "update_feed", data |-> Text(s)] : s \in {"", "/9j/"}}
        \cup {[name |-> "update_feed", data |-> Number(7)],
              [name |-> "update_feed", data |-> NoChipData]}
        \cup {[name |-> "frame_rate", data |-> ArrayBuffer(b)] :
                  b \in [1..4 -> FloatBytes]}

\* the first event on the connection
DeliverOne == arrived = <<>> /\ \E e \in CodecEvents : Deliver(1, e)

NextCodec ==
    \/ ConnectOnce
    \/ HandshakeOk(1)
    \/ DeliverOne

SpecCodec == Init /\ [][NextCodec]_vars

(***************************************************************************)
(* The callback setters: callbacks f and g registered on a service that    *)
(* the App has set up, and the events that invoke them.                    *)
(***************************************************************************)
OtherCallbacks == {"f", "g"}

\* setOnVitalSignsUpdate ... setOnConnectionStatusChange: this.onX = callback
SetOn(k, cb) ==
    /\ slots' = [slots EXCEPT ![k] = cb]
    /\ stepLog' = <<>>
    /\ UNCHANGED <<socket, publisherUrl, isConnected, sockets, app, nActive,
                   arrived, calls, escaped, drops, discCalled, boot, screens>>

SlotEvents ==
    {[name |-> "add_chip", data |-> GoodVitals],
     [name |-> "update_feed", data |-> Text("/9j/")],
     [name |-> "thermal_image", data |-> ArrayBuffer(<<137, 80>>)],
     [name |-> "frame_rate", data |-> ArrayBuffer(<<0, 0, 128, 63>>)]}

\* the first event on the connection, one of each family
DeliverSlotEvent == arrived = <<>> /\ \E e \in SlotEvents : Deliver(1, e)

NextSlots ==
    \/ ConnectOnce
    \/ \E k \in Slots, cb \in OtherCallbacks : SetOn(k, cb)
    \/ HandshakeOk(1)
    \/ LinkDrop(1)
    \/ DeliverSlotEvent

SpecSlots == Init /\ [][NextSlots]_vars

(***************************************************************************)
(* The App's manual connection change: every initializeSocketService makes *)
(* a new SocketService with one socket, so a socket's id names its service *)
(* too.  Of a replaced service only the socket and the callbacks act on;   *)
(* its private isConnected is not kept.                                    *)
(***************************************************************************)
\* the state a handler of service s leaves: isConnected here is the field of
\* the current service
OfService(st, s) ==
    IF s = socket THEN st ELSE [st EXCEPT !.isConnected = isConnected]

\* the socket of a new service; its vitals callback closes over
\* patientInfo.isSearching of the render that made it
NewServiceSocket(url, searching) ==
    [NewSocket(url) EXCEPT !.searching = searching]

\* initializeSocketService(publisherIP): disconnect() the service in the
\* ref, new SocketService(publisherIP), the five setters, connect()
InitializeService(publisherIP) ==
    LET old == IF socket # 0 THEN DisconnectResult(SvcState, socket) ELSE SvcState
        url == MakeUrl(publisherIP, DefaultPort)
        r   == ConnectResult([old EXCEPT !.isConnected = FALSE], 0, url)
        n   == socket + 1
    IN  /\ socket' = n
        /\ Commit([r.svc EXCEPT !.sockets[n] =
                                    NewServiceSocket(url, app.isSearching)])
        /\ publisherUrl' = r.publisherUrl
        /\ slots' = AppSlots
        /\ discCalled' = FALSE

\* handleConnectionChange(newIP)
HandleConnectionChange(newIP) ==
    /\ socket < MaxSockets
    /\ boot' = [boot EXCEPT !.logs =
                   AddLog(@, "info", <<"Attempting to connect to new publisher:", newIP>>)]
    /\ InitializeService(newIP)
    /\ UNCHANGED <<arrived, calls, escaped, drops, screens>>

AppHandshakeOk(s) ==
    /\ sockets[s].phase \in {"opening", "reconnecting"}
    /\ UrlParses(sockets[s].url)
    /\ LET up == [SvcState EXCEPT !.sockets[s].phase = "connected",
                                  !.sockets[s].attempts = 0,
                                  !.sockets[s].wasUp = TRUE]
       IN  Commit(OfService(OnConnect(up, s, s, sockets[s].url), s))
    /\ Transport

AppHandshakeFail(s, err) ==
    /\ sockets[s].phase \in {"opening", "reconnecting"}
    /\ sockets[s].attempts < MaxRetries
    /\ LET down == [SvcState EXCEPT !.sockets[s] = AfterFailure(@)]
       IN  Commit(OfService(OnConnectError(down, s, err), s))
    /\ Transport

AppLinkDrop(s) ==
    /\ sockets[s].phase = "connected"
    /\ drops < MaxDrops
    /\ drops' = drops + 1
    /\ LET down == [SvcState EXCEPT !.sockets[s].phase = "reconnecting",
                                    !.sockets[s].attempts = 1]
       IN  Commit(OfService(OnDisconnect(down), s))
    /\ UNCHANGED <<socket, publisherUrl, arrived, calls, escaped, discCalled, boot,
                   slots, screens>>

AppEvents == {[name |-> "add_chip", data |-> GoodVitals]}

NextApp ==
    \/ \E ip \in IPs : HandleConnectionChange(ip)
    \/ \E s \in SocketIds : AppHandshakeOk(s)
    \/ \E s \in SocketIds : AppHandshakeFail(s, "timeout")
    \/ \E s \in SocketIds : AppLinkDrop(s)
    \/ \E s \in SocketIds, e \in AppEvents : Deliver(s, e)

SpecApp == Init /\ [][NextApp]_vars

(***************************************************************************)
(* addLog on its own: calls numbered 1, 2, ...; the first MaxTyped of them *)
(* of any type, the later ones 'info'.                                     *)
(***************************************************************************)
MaxLogs == 55

MaxTyped == 3

LogTypes == {"info", "warning", "error"}

\* addLog calls so far: the number the last entry carries
LogCount ==
    IF boot.logs = <<>> THEN 0 ELSE boot.logs[Len(boot.logs)].message[2]

AddLogCall(type) ==
    /\ LogCount < MaxLogs
    /\ type = "info" \/ LogCount < MaxTyped
    /\ boot' = [boot EXCEPT !.logs = AddLog(@, type, <<"entry", LogCount + 1>>)]
    /\ UNCHANGED <<socket, publisherUrl, isConnected, sockets, app, stepLog,
                   nActive, arrived, calls, escaped, drops, discCalled, slots,
                   screens>>

NextLogs == \E type \in LogTypes : AddLogCall(type)

SpecLogs == Init /\ [][NextLogs]_vars

(***************************************************************************)
(* The manual override of the Diagnostics screen.  A text is a sequence of *)
(* characters.                                                             *)
(***************************************************************************)
Digits == {"0", "1", "2", "3", "4", "5", "6", "7", "8", "9"}

\* an octet pattern that takes any one to three digits
MatchesOctetAnyDigits(cs) ==
    Len(cs) \in 1..3 /\ \A i \in DOMAIN cs : cs[i] \in Digits

\* (?:25[0-5]|2[0-4][0-9]|[01]?[0-9][0-9]?) against the whole of cs
MatchesOctet(cs) ==
    \/ /\ Len(cs) = 3
       /\ cs[1] = "2" /\ cs[2] = "5" /\ cs[3] \in {"0", "1", "2", "3", "4", "5"}
    \/ /\ Len(cs) = 3
       /\ cs[1] = "2" /\ cs[2] \in {"0", "1", "2", "3", "4"} /\ cs[3] \in Digits
    \/ /\ Len(cs) = 3
       /\ cs[1] \in {"0", "1"} /\ cs[2] \in Digits /\ cs[3] \in Digits
    \/ /\ Len(cs) = 2
       /\ cs[1] \in Digits /\ cs[2] \in Digits
    \/ /\ Len(cs) = 1
       /\ cs[1] \in Digits

\* the pieces of cs between its dots
RECURSIVE SplitAtDots(_, _)
SplitAtDots(cs, piece) ==
    IF cs = <<>> THEN <<piece>>
    ELSE IF cs[1] = "." THEN <<piece>> \o SplitAtDots(Tail(cs), <<>>)
    ELSE SplitAtDots(Tail(cs), Append(piece, cs[1]))

\* validateIP: ^(?:octet\.){3}octet$; an octet holds no dot, so the pattern
\* matches exactly when cs has three dots and its four pieces are octets
ValidateIP(cs) ==
    LET pieces == SplitAtDots(cs, <<>>)
    IN  Len(pieces) = 4 /\ \A i \in 1..4 : MatchesOctet(pieces[i])

MaxParts == 4

\* what the user adds to the text in one change
Parts ==
    {<<"0">>, <<"2", "5">>, <<"2", "5", "5">>, <<"2", "5", "6">>,
     <<"0", "0", "7">>, <<"3", "0", "0">>, <<"1", "a">>, <<".", "1">>}

\* onPress of 'Change Connection': setShowIPInput(!showIPInput)
ToggleIPInput ==
    /\ screens' = [screens EXCEPT !.showIPInput = ~@,
                                  !.called = NotCalled, !.alert = FALSE]
    /\ UNCHANGED <<socket, publisherUrl, isConnected, sockets, app, stepLog,
                   nActive, arrived, calls, escaped, drops, discCalled, boot,
                   slots>>

\* onChangeText={setNewIP}: the text grows by a part, a dot before it unless
\* it is the first
ChangeText(part) ==
    /\ screens.showIPInput
    /\ screens.typed < MaxParts
    /\ screens' = [screens EXCEPT
                       !.newIP = IF @ = <<>> THEN part ELSE @ \o <<".">> \o part,
                       !.typed = @ + 1,
                       !.called = NotCalled, !.alert = FALSE]
    /\ UNCHANGED <<socket, publisherUrl, isConnected, sockets, app, stepLog,
                   nActive, arrived, calls, escaped, drops, discCalled, boot,
                   slots>>

\* onPress of 'Cancel'
CancelIPInput ==
    /\ screens.showIPInput
    /\ screens' = [screens EXCEPT !.showIPInput = FALSE, !.newIP = <<>>,
                                  !.typed = 0,
                                  !.called = NotCalled, !.alert = FALSE]
    /\ UNCHANGED <<socket, publisherUrl, isConnected, sockets, app, stepLog,
                   nActive, arrived, calls, escaped, drops, discCalled, boot,
                   slots>>

\* onPress of 'Connect': handleConnectionChange of the screen
PressConnect ==
    /\ screens.showIPInput
    /\ screens' = IF ValidateIP(screens.newIP)
                  THEN [screens EXCEPT
                            !.called = [made |-> TRUE, ip |-> screens.newIP],
                            !.showIPInput = FALSE, !.newIP = <<>>, !.typed = 0,
                            !.alert = FALSE]
                  ELSE [screens EXCEPT !.called = NotCalled, !.alert = TRUE]
    /\ UNCHANGED <<socket, publisherUrl, isConnected, sockets, app, stepLog,
                   nActive, arrived, calls, escaped, drops, discCalled, boot,
                   slots>>

NextDiagnostics ==
    \/ ToggleIPInput
    \/ \E part \in Parts : ChangeText(part)
    \/ CancelIPInput
    \/ PressConnect

SpecDiagnostics == Init /\ [][NextDiagnostics]_vars

(***************************************************************************)
(* The vitals histories of the Health screen and the bars drawn from them. *)
(* A reading is a number or a string, as the fields of VitalSigns are.     *)
(***************************************************************************)
\* prev.slice(-20)
HistoryKeep == 20

\* history.slice(-20)
ChartWindow == 20

MaxUpdates == 24
MaxStrings == 3

\* typeof reading === 'number' ? reading : 0
NumberOrZero(reading) == IF reading.type = "number" THEN reading.num ELSE 0

\* s.slice(-n), for n > 0
SliceLast(s, n) == IF Len(s) > n THEN SubSeq(s, Len(s) - n + 1, Len(s)) ELSE s

\* prev => [...prev.slice(-20), value]
HistoryUpdate(prev, reading) ==
    Append(SliceLast(prev, HistoryKeep), NumberOrZero(reading))

\* the bars of renderVitalChart: history.slice(-20).map((val, index) => ...),
\* index counted from 0 within the slice; the opacity in tenths
Bars(history) ==
    LET shown == SliceLast(history, ChartWindow)
    IN  [i \in 1..Len(shown) |->
            [val |-> shown[i],
             opacity |-> IF i - 1 = Len(history) - 1 THEN 10 ELSE 7]]

\* the vital signs of the k-th run of the effect; only the first MaxStrings
\* runs may see strings
VitalSignsOf(k) ==
    {[heartrate |-> Number(60 + k), resprate |-> Number(10 + k),
      temp |-> Number(90 + k)]}
    \cup IF k <= MaxStrings
         THEN {[heartrate |-> Text("N/A"), resprate |-> Text("N/A"),
                temp |-> Text("N/A")],
               [heartrate |-> Text("72"), resprate |-> Number(10 + k),
                temp |-> Text("N/A")]}
         ELSE {}

\* the effect on [vitalSigns]: it runs after the screen is mounted and after
\* every change of the vitalSigns prop
VitalsEffect(vitalSigns) ==
    /\ screens.updates < MaxUpdates
    /\ screens' = [screens EXCEPT
           !.heartRateHistory = HistoryUpdate(@, vitalSigns.heartrate),
           !.respRateHistory = HistoryUpdate(@, vitalSigns.resprate),
           !.tempHistory = HistoryUpdate(@, vitalSigns.temp),
           !.updates = @ + 1]
    /\ UNCHANGED <<socket, publisherUrl, isConnected, sockets, app, stepLog,
                   nActive, arrived, calls, escaped, drops, discCalled, boot,
                   slots>>

NextHealth == \E vitalSigns \in VitalSignsOf(screens.updates + 1) : VitalsEffect(vitalSigns)

SpecHealth == Init /\ [][NextHealth]_vars

(***************************************************************************)
(* The App's start: discovery, then the first connection.                  *)
(***************************************************************************)
NextStart ==
    \/ InitializeWithDiscovery
    \/ StartProbe
    \/ \E o \in Outcomes : FinishProbe(o)
    \/ InitializeSocketService
    \/ HandshakeOk(1)
    \/ \E err \in Errors : HandshakeFail(1, err)

SpecStart == Init /\ [][NextStart]_vars

(***************************************************************************)
(* The claims.                                                             *)
(***************************************************************************)
InactiveDisconnected == Notify("Inactive", "Disconnected")
InactiveConnectionError == Notify("Inactive", "Connection Error")

NoActiveIn(log) == \A i \in 1..Len(log) : log[i].status # "Active"

\* C1: at most one socket the service created is open or attempting its
\* handshake, also when connect() or changeConnection() is called while an
\* earlier attempt is still pending.
C1_AtMostOneLiveSocket ==
    Cardinality({s \in SocketIds : Live(s)}) <= 1

C3_SupersededHasNoEffect ==
    [][\A s \in SocketIds :
          (s # socket /\ (HandshakeOk(s) \/ \E err \in Errors : HandshakeFail(s, err)))
              => /\ isConnected' = isConnected
                 /\ stepLog' = <<>>
                 /\ sockets'[socket].handlers = sockets[socket].handlers]_vars

\* C4: after disconnect(), until connect() or changeConnection() is called
\* again, isConnected is never true and no 'Active' is reported.
C4_DisconnectIsFinal ==
    [][(discCalled /\ discCalled') => (~isConnected' /\ NoActiveIn(stepLog'))]_vars

\* C5: in the run connect(), handshake success, disconnect() (one connect()
\* call, no link drop) the status callback is invoked exactly once with
\* ('Active', address of the endpoint); disconnect() on the connected socket
\* invokes it exactly once, with ('Inactive', 'Disconnected'); and no step
\* after that invokes it.
OneConnect == socket = 1 /\ drops = 0

IsFrameRate(e) == e.name = "frame_rate" /\ ~BytesToFloatThrows(e.data)

FrameRatesOf(evs) ==
    LET fr == SelectSeq(evs, IsFrameRate)
    IN  [i \in 1..Len(fr) |-> BytesToFloat(fr[i].data)]

IsFPSCall(c) == c.slot = "fps"

FPSCallsOf(cs) ==
    LET fc == SelectSeq(cs, IsFPSCall)
    IN  [i \in 1..Len(fc) |-> fc[i].fps]

C6_OneCallPerFrameRate == FPSCallsOf(calls) = FrameRatesOf(arrived)

\* C7: a malformed payload of any of the four categories is caught inside
\* its handler: no exception leaves the handler, no callback is invoked,
\* and the connection state is unchanged.
MalformedEvents ==
    {[name |-> "update_chip", data |-> NoChipData],
     [name |-> "update_feed", data |-> Number(7)],
     [name |-> "thermal_image", data |-> Text("iVA=")],
     [name |-> "frame_rate", data |-> ArrayBuffer(<<0, 0>>)]}

C7_MalformedIsCaught ==
    [][\A e \in MalformedEvents :
          Deliver(1, e) => /\ escaped' = escaped
                           /\ calls' = calls
                           /\ UNCHANGED <<socket, sockets, isConnected>>]_vars

\* C8: a vitals event whose record lacks heartrate raises nothing, invokes
\* no callback, and leaves the App's vitalSigns as they were.
C8_MissingFieldKeepsVitals ==
    [][Deliver(1, [name |-> "update_chip", data |-> NoHeartrate])
          => /\ escaped' = escaped
             /\ calls' = calls
             /\ app'.vitalSigns = app.vitalSigns]_vars

\* C9: every change of isConnected comes with exactly one invocation of
\* the status callback, carrying the new status.
C9_EveryChangeIsNotified ==
    [][isConnected' # isConnected
          => /\ Len(stepLog') = 1
             /\ stepLog'[1].status = (IF isConnected' THEN "Active" ELSE "Inactive")]_vars

\* C10: when the handshake of a connect() attempt fails ('connect_error'
\* while its promise is pending), the promise rejects with the transport's
\* error, ('Inactive', 'Connection Error') is reported and isConnected is
\* false.
C10_HandshakeFailureRejects ==
    [][\A s \in SocketIds, err \in Errors :
          HandshakeFail(s, err)
              => /\ ~isConnected'
                 /\ stepLog' = <<InactiveConnectionError>>
                 /\ app'.connectionStatus = "Inactive"
                 /\ sockets[s].promise = Pending
                        => sockets'[s].promise = [state |-> "rejected", value |-> err]]_vars

C10_Rejected ==
    \E s \in SocketIds :
        /\ sockets[s].promise.state = "rejected"
        /\ sockets[s].phase = "reconnecting"
        /\ ~sockets[s].wasUp
        /\ stepLog = <<InactiveConnectionError>>
        /\ ~isConnected

\* C11: once the handshake of a connect() attempt has failed (its promise is
\* rejected), the state does not become Connected and no 'Active' is
\* reported until connect() or changeConnection() is called again.
C11_FailureIsFinal ==
    [][(socket # 0 /\ socket' = socket /\ sockets[socket].promise.state = "rejected")
          => (~isConnected' /\ NoActiveIn(stepLog'))]_vars

\* C12: disconnect() with no active connection (no socket, or a socket that
\* is not connected) changes no state of the service and invokes no
\* callback; a second disconnect() in a row changes nothing either.
C12_DisconnectIsIdempotent ==
    /\ ~Connected(socket) =>
           /\ DisconnectResult(SvcState, socket).isConnected = isConnected
           /\ DisconnectResult(SvcState, socket).sockets = sockets
           /\ DisconnectResult(SvcState, socket).log = <<>>
    /\ LET once == DisconnectResult(SvcState, socket)
           twice == DisconnectResult(once, socket)
       IN  twice = once

\* C13: changeConnection(newIP) leaves the same state and makes the same
\* status-callback invocations as disconnect() followed by connect() to the
\* new endpoint.
C13_ChangeIsDisconnectThenConnect ==
    \A ip \in IPs :
        ConnectResult(SvcState, socket, MakeUrl(ip, DefaultPort))
            = ConnectResult(DisconnectResult(SvcState, socket), socket,
                            MakeUrl(ip, DefaultPort))

\* C14: connect() called while a previous socket of the service is connected
\* disconnects that socket and reports its 'Inactive' before it creates the
\* new socket.
C14_ConnectClosesConnected ==
    \A s \in SocketIds :
        sockets[s].phase = "connected" =>
            LET r == ConnectResult(SvcState, socket, publisherUrl)
            IN  /\ r.svc.sockets[s].phase = "closed"
                /\ r.svc.log = <<InactiveDisconnected>>

\* C15: after an established link has dropped the manager makes at most
\* ReconnectionAttempts attempts; when the last of them has failed the
\* state is Disconnected and the socket makes no further attempt.
C15_RetryLoopTerminates ==
    [][/\ sockets'[1].attempts <= ReconnectionAttempts
       /\ sockets[1].phase = "failed" =>
              /\ ~isConnected /\ app.connectionStatus = "Inactive"
              /\ sockets'[1] = sockets[1] /\ ~isConnected']_vars

\* the link was up, dropped, and every reconnection attempt failed
C15_GaveUp == sockets[1].phase = "failed" /\ sockets[1].wasUp

\* a probe finds the publisher: a response with status 200 before the abort
Reachable(o) ==
    o.kind = "response" /\ o.status = 200 /\ o.latency < ProbeTimeout

\* C16: discoverPublisher probes the candidates in the declared order, one at
\* a time, returns the first candidate whose probe succeeds and probes none
\* after it; when only the last is reachable the first two were probed first.
C16_InOrderFirstSuccess ==
    /\ boot.inflight <= 1
    /\ boot.inflight = 1 => boot.i = Len(boot.probes) + 1
    /\ Len(boot.probes) <= Len(TestIPs)
    /\ \A k \in DOMAIN boot.probes :
           /\ boot.probes[k].ip = TestIPs[k]
           /\ boot.probes[k].value => k = Len(boot.probes)
    /\ boot.pc \in {"done", "started"} =>
           /\ (\E k \in DOMAIN boot.probes : boot.probes[k].value)
                  => boot.result = boot.probes[Len(boot.probes)].ip
           /\ boot.result = TestIPs[3] =>
                  /\ Len(boot.probes) = 3
                  /\ ~boot.probes[1].value /\ ~boot.probes[2].value

\* only the last candidate was reachable
C16_OnlyLastReachable ==
    /\ boot.pc = "done" /\ boot.result = "localhost"
    /\ Len(boot.probes) = 3

\* C17: discoverPublisher never raises: it returns null when every probe
\* fails (non-200, network failure, timeout), and always null or a candidate.
C17_NullOrCandidate ==
    /\ boot.pc \in {"mounted", "discovering", "done", "started"}
    /\ boot.pc \in {"done", "started"} =>
           /\ boot.result \in {Null} \cup {TestIPs[k] : k \in DOMAIN TestIPs}
           /\ (\A k \in DOMAIN boot.probes : ~Reachable(boot.probes[k].outcome))
                  => boot.result = Null
           /\ boot.result # Null =>
                  \E k \in DOMAIN boot.probes :
                      boot.probes[k].ip = boot.result /\ Reachable(boot.probes[k].outcome)

\* three probes failed, one by a non-200 response, one by a network failure
\* and one by the abort
C17_AllFailed ==
    /\ boot.pc = "done" /\ boot.result = Null
    /\ boot.probes[1].outcome.status = 404 /\ boot.probes[1].outcome.latency < ProbeTimeout
    /\ boot.probes[2].outcome.kind = "network error"
    /\ boot.probes[3].outcome.status = 200 /\ boot.probes[3].outcome.latency > ProbeTimeout

\* C18: testConnection yields true exactly when GET /ping returned status 200
\* before the 2-second abort; a non-200 response, a network failure and the
\* abort yield false, and none of them an exception.
C18_TrueIffOkInTime ==
    \A k \in DOMAIN boot.probes :
        /\ boot.probes[k].value = Reachable(boot.probes[k].outcome)
        /\ ~boot.probes[k].raised

\* a 204 in time and a 200 after the abort were both refused, a 200 in time
\* accepted
C18_Probed ==
    /\ Len(boot.probes) = 3
    /\ boot.probes[1].outcome.status = 204 /\ boot.probes[1].outcome.latency < ProbeTimeout
    /\ boot.probes[2].outcome.status = 200 /\ boot.probes[2].outcome.latency > ProbeTimeout
    /\ boot.probes[3].value

\* the step of initializeWithDiscovery that follows a discovery without result
FallbackStep ==
    boot.pc = "done" /\ boot.result = Null /\ boot'.pc = "started"

\* C19 (as stated): when discovery finds no candidate the status callback
\* receives ('Inactive', fallback address) once the fallback is chosen.
C19_FallbackIsNotified ==
    [][FallbackStep =>
          \E k \in DOMAIN stepLog' :
              stepLog'[k] = Notify("Inactive", DEFAULT_PUBLISHER_IP)]_vars

\* C19 (amended): when discovery finds no candidate the App adds a warning
\* log entry that names the default address, does not invoke the status
\* callback, and makes a connect attempt to the default address.
C19_FallbackIsLogged ==
    [][FallbackStep =>
          /\ boot'.logs[Len(boot'.logs)]
                 = [type |-> "warning",
                    message |-> <<"Auto-discovery failed, trying default IP:",
                                  DEFAULT_PUBLISHER_IP>>]
          /\ stepLog' = <<>> /\ app' = app
          /\ socket' = 1
          /\ sockets'[1].phase = "opening"
          /\ sockets'[1].url = MakeUrl(DEFAULT_PUBLISHER_IP, DefaultPort)]_vars

\* the fallback was taken
C19_FellBack ==
    boot.pc = "started" /\ boot.result = Null /\ sockets[1].phase = "opening"

\* C20: at the App's start there is no connect attempt before discovery has
\* finished, and exactly one after it: to the discovered address, or to
\* '10.0.0.32' when discovery returned none.
C20_OneConnectAfterDiscovery ==
    /\ boot.pc \in {"mounted", "discovering", "done"} => socket = 0
    /\ boot.pc = "started" =>
           /\ socket = 1
           /\ \A s \in SocketIds : sockets[s] # NoSocket => s = 1
           /\ sockets[1].url
                  = MakeUrl(IF boot.result = Null THEN "10.0.0.32" ELSE boot.result,
                            DefaultPort)

\* the App connected to a discovered address that is not the default
C20_ConnectedToDiscovered ==
    boot.pc = "started" /\ boot.result = "127.0.0.1" /\ socket = 1

IsBinary(d) == TypeOf(d) \in {"ArrayBuffer", "Uint8Array"}

\* the invocations of the RGB callback the events es call for
RECURSIVE RGBCallsFor(_)
RGBCallsFor(es) ==
    IF es = <<>> THEN <<>>
    ELSE LET d == es[1].data
             c == IF es[1].name # "update_feed" THEN <<>>
                  ELSE IF IsBinary(d)
                  THEN <<ImageCall("rgb", ArrayBufferToBase64(d.bytes))>>
                  ELSE IF TypeOf(d) = "string" THEN <<ImageCall("rgb", d.text)>>
                  ELSE <<>>
         IN  c \o RGBCallsFor(Tail(es))

IsRGBCall(c) == c.slot = "rgb"

\* C21: an RGB frame with a binary payload reaches the RGB callback as the
\* base64 of its bytes, one with a text payload unchanged; any other payload
\* invokes no callback and raises nothing.
C21_RGBFrameDecoding ==
    /\ SelectSeq(calls, IsRGBCall) = RGBCallsFor(arrived)
    /\ (\A k \in DOMAIN arrived : arrived[k].name = "update_feed") => escaped = 0

\* a typed array of three bytes arrived and was delivered
C21_BinaryDelivered ==
    /\ arrived = <<[name |-> "update_feed", data |-> Uint8Array(<<255, 0, 128>>)]>>
    /\ Len(calls) = 1 /\ calls[1].slot = "rgb"

\* atob on the characters of a padded base64 string
B64Val(c) == CHOOSE n \in 0..63 : B64Chars[n + 1] = c

RECURSIVE Atob(_)
Atob(cs) ==
    IF cs = <<>> THEN <<>>
    ELSE LET v1 == B64Val(cs[1])
             v2 == B64Val(cs[2])
             b1 == v1 * 4 + v2 \div 16
         IN  IF cs[3] = "=" THEN <<b1>>
             ELSE LET v3 == B64Val(cs[3])
                      b2 == (v2 % 16) * 16 + v3 \div 4
                  IN  IF cs[4] = "=" THEN <<b1, b2>>
                      ELSE <<b1, b2, (v3 % 4) * 64 + B64Val(cs[4])>>
                               \o Atob(SubSeq(cs, 5, Len(cs)))

\* C22: the string arrayBufferToBase64 gives for a buffer decodes, byte for
\* byte, back to the buffer; it is the string the image callback receives.
C22_Base64RoundTrip ==
    \A k \in DOMAIN arrived :
        (arrived[k].name \in {"update_feed", "thermal_image"} /\ IsBinary(arrived[k].data))
            => LET B  == arrived[k].data.bytes
                   cs == BtoaChars(BinaryString(B))
               IN  /\ Atob(cs) = B
                   /\ Len(cs) = 4 * ((Len(B) + 2) \div 3)
                   /\ k \in DOMAIN calls
                   /\ calls[k].image = JoinChars(cs)
                   /\ calls[k].image = ArrayBufferToBase64(B)

\* a buffer of four bytes, the high bit set in some, went through
C22_Encoded ==
    /\ arrived = <<[name |-> "thermal_image", data |-> ArrayBuffer(<<255, 128, 0, 127>>)]>>
    /\ Len(calls) = 1

\* 1.0 and other singles, by their bytes in little-endian order
One == [kind |-> "num", sign |-> 0, num |-> 1, exp |-> 0]

KnownFloats ==
    {<<(<<0, 0, 128, 63>>), One>>,
     <<(<<0, 0, 240, 65>>), [kind |-> "num", sign |-> 0, num |-> 15, exp |-> 1]>>,
     <<(<<0, 0, 128, 255>>), [kind |-> "inf", sign |-> 1, num |-> 0, exp |-> 0]>>,
     <<(<<0, 0, 0, 128>>), [kind |-> "num", sign |-> 1, num |-> 0, exp |-> 0]>>,
     <<(<<63, 128, 0, 0>>), [kind |-> "num", sign |-> 0, num |-> 32831, exp |-> -149]>>}

\* C23: the frame-rate decoder reads the four bytes as an IEEE-754 single,
\* first byte least significant: 00 00 80 3F is 1.0.
C23_LittleEndianFloat ==
    \A k \in DOMAIN arrived, v \in KnownFloats :
        (arrived[k].name = "frame_rate" /\ arrived[k].data = ArrayBuffer(v[1]))
            => (k \in DOMAIN calls /\ calls[k] = FPSCall(v[2]))

\* 00 00 80 3F arrived and the FPS callback received 1.0
C23_DecodedOne ==
    /\ arrived = <<[name |-> "frame_rate", data |-> ArrayBuffer(<<0, 0, 128, 63>>)]>>
    /\ calls = <<FPSCall(One)>>

\* the invocations a step added to calls
NewCalls == SubSeq(calls', Len(calls) + 1, Len(calls'))

\* a setter writes its own slot and nothing else
SetterWritesOneSlot ==
    slots' # slots =>
        /\ \E k \in Slots : \A j \in Slots \ {k} : slots'[j] = slots[j]
        /\ UNCHANGED <<socket, publisherUrl, isConnected, sockets, app, calls>>

\* whatever is invoked is the callback registered last on its slot
InvokesRegistered ==
    /\ \A i \in DOMAIN NewCalls : NewCalls[i].by = slots[NewCalls[i].slot]
    /\ \A i \in DOMAIN stepLog' : stepLog'[i].by = slots["status"]

\* C24: a slot holds one callback: after f and then g were registered on a
\* slot an event of its family invokes g, exactly once, and never f; a
\* setter leaves the other four slots as they were.
C24_OneCallbackPerSlot ==
    [][/\ SetterWritesOneSlot
       /\ InvokesRegistered
       /\ (\E i \in DOMAIN NewCalls : NewCalls[i].by = "g") => Len(NewCalls) = 1
       /\ Len(stepLog') <= 1]_vars

\* C24 without the count: the callback registered last is the one invoked
C24_LastRegisteredIsInvoked ==
    [][SetterWritesOneSlot /\ InvokesRegistered]_vars

\* the events of Events with a payload of the shape their family defines
WellFormedEvents ==
    {[name |-> "add_chip", data |-> GoodVitals],
     [name |-> "update_feed", data |-> ArrayBuffer(<<255, 216, 255>>)],
     [name |-> "update_feed", data |-> Text("/9j/")],
     [name |-> "thermal_image", data |-> ArrayBuffer(<<137, 80>>)],
     [name |-> "frame_rate", data |-> ArrayBuffer(<<0, 0, 128, 63>>)],
     [name |-> "frame_rate", data |-> ArrayBuffer(<<0, 0, 240, 65>>)]}

\* one run of its handler for each event, in order
RECURSIVE CallsFor(_)
CallsFor(es) ==
    IF es = <<>> THEN <<>>
    ELSE Handler(es[1].name, es[1].data).calls \o CallsFor(Tail(es))

\* C25: for well-formed events the sequence of callback invocations is the
\* arrival sequence: one invocation per event, in arrival order.
C25_InvocationsFollowArrival ==
    (\A k \in DOMAIN arrived : arrived[k] \in WellFormedEvents)
        => calls = CallsFor(arrived)

\* C26: 'Active' carries the address of the endpoint whose handshake has
\* just succeeded, also when changeConnection() replaced the target while
\* the attempt was in flight.
C26_ActiveNamesItsEndpoint ==
    [][\A s \in SocketIds :
          (sockets[s].phase # "connected" /\ sockets'[s].phase = "connected")
              => stepLog' = <<Notify("Active", sockets[s].url.host)>>]_vars

\* C27: no socket has more than one handler for any of the five event
\* names: setupEventHandlers runs at most once per socket.
C27_HandlersRegisteredOnce ==
    \A s \in SocketIds : sockets[s].handlers <= 1

\* C28: getConnectionStatus() is true exactly when this.socket exists and is
\* connected.
C28_StatusMatchesSocket == isConnected = Connected(socket)

\* C29: once initializeSocketService has replaced the service, the previous
\* service has no open or pending socket and its callbacks no longer write
\* the App's state.
C29_ReplacedServiceIsDead ==
    [][/\ \A s \in SocketIds : s < socket' => ~(sockets'[s].phase \in {"opening", "connected", "reconnecting"})
       /\ \A s \in SocketIds :
              (s < socket /\ socket' = socket /\ sockets'[s] # sockets[s]) => app' = app]_vars

IsDetectingVitals(e) ==
    /\ e.name \in {"add_chip", "update_chip"}
    /\ "chip_data" \in DOMAIN e.data
    /\ Field(e.data.chip_data, "heartrate") # "N/A"

\* C30: vitals with a heartrate other than 'N/A' that arrive while the
\* patient info is searching make it 'Patient Detected' and not searching,
\* for every service the App creates; every 'Inactive' makes it searching.
C30_VitalsDetectPatient ==
    [][/\ \A s \in SocketIds, e \in AppEvents :
              (Deliver(s, e) /\ IsDetectingVitals(e) /\ app.isSearching)
                  => (app'.patientName = "Patient Detected" /\ ~app'.isSearching)
       /\ (stepLog' # <<>> /\ stepLog'[Len(stepLog')].status = "Inactive")
              => (app'.isSearching /\ app'.patientName = "")]_vars

\* C31: the log list holds at most 50 entries, the most recently added ones
\* in the order they were added: an addLog appends its entry and drops the
\* oldest one when the list already held 50.
C31_LogKeepsLast50 ==
    [][boot'.logs # boot.logs =>
          LET old == boot.logs
              new == boot'.logs
          IN  /\ Len(new) <= 50
              /\ Len(new) >= 1
              /\ SubSeq(new, 1, Len(new) - 1)
                     = (IF Len(old) >= 50 THEN SubSeq(old, Len(old) - 48, Len(old))
                        ELSE old)
              /\ \A i \in DOMAIN new :
                     new[i].message[2] = new[Len(new)].message[2] - Len(new) + i]_vars

\* 51 entries were added: the first is gone, the second is now the oldest
C31_OldestDropped ==
    /\ Len(boot.logs) = 50
    /\ boot.logs[1].message = <<"entry", 2>>
    /\ boot.logs[50].message = <<"entry", 51>>

DigitValue(c) ==
    CHOOSE n \in 0..9 : <<"0", "1", "2", "3", "4", "5", "6", "7", "8", "9">>[n + 1] = c

RECURSIVE DecimalValue(_)
DecimalValue(cs) ==
    IF cs = <<>> THEN 0
    ELSE 10 * DecimalValue(SubSeq(cs, 1, Len(cs) - 1)) + DigitValue(cs[Len(cs)])

\* one to three digits that read as a number in 0..255
IsOctet(cs) ==
    /\ Len(cs) \in 1..3
    /\ \A i \in DOMAIN cs : cs[i] \in Digits
    /\ DecimalValue(cs) <= 255

\* four octets with a dot between them
IsDottedQuad(cs) ==
    LET pieces == SplitAtDots(cs, <<>>)
    IN  Len(pieces) = 4 /\ \A i \in 1..4 : IsOctet(pieces[i])

\* C32: the manual override calls onConnectionChange(ip) only for a dotted
\* quad with octets in 0..255; for any other text it requests nothing,
\* leaves the text and the input's visibility alone and shows an alert.
C32_OnlyValidIPIsRequested ==
    [][/\ screens'.called.made =>
              /\ IsDottedQuad(screens.newIP)
              /\ screens'.called.ip = screens.newIP
       /\ PressConnect =>
              IF IsDottedQuad(screens.newIP)
              THEN screens'.called.made /\ ~screens'.alert
              ELSE /\ ~screens'.called.made
                   /\ screens'.alert
                   /\ screens'.newIP = screens.newIP
                   /\ screens'.showIPInput = screens.showIPInput]_vars

\* 256.0.0.0 was refused with an alert
C32_Refused256 ==
    /\ screens.alert
    /\ screens.newIP = <<"2", "5", "6", ".", "0", ".", "0", ".", "0">>
    /\ screens.showIPInput

Histories == {screens.heartRateHistory, screens.respRateHistory, screens.tempHistory}

\* C33: each vitals history holds at most 20 samples and, when it is not
\* empty, the bar of its most recent sample is drawn at full opacity.
C33_HistoryWindow ==
    \A history \in Histories :
        /\ Len(history) <= 20
        /\ history # <<>> =>
               LET bars == Bars(history)
               IN  /\ bars[Len(bars)].val = history[Len(history)]
                   /\ bars[Len(bars)].opacity = 10

\* C33: a reading that is not a number is recorded as 0.
C33_StringRecordedAsZero ==
    [][\A vitalSigns \in VitalSignsOf(screens.updates + 1) :
           VitalsEffect(vitalSigns) /\ vitalSigns.heartrate.type = "string" =>
               LET h == screens'.heartRateHistory IN h[Len(h)] = 0]_vars

====
